---- MODULE Spec2Model ----
(***************************************************************************)
(* ELERA Scanbook portal: the bwip-js backed barcode components            *)
(* (DataMatrixBarcode, Code128Barcode), the login / navigation shell       *)
(* (Login, AppContent), the custom-item management of ItemsView, the GS1   *)
(* element string built by AddItemModal and the linear Barcode component.  *)
(* Texts are sequences of one-character strings, so that stripping,        *)
(* framing and comparing them is computed and not assumed.                 *)
(***************************************************************************)
EXTENDS Integers, Sequences, FiniteSets, TLC

\* ------------------------------------------------------------------ bounds
MaxLen == 2          \* longest value / gs1Data text handed to one component
MaxComps == 2        \* component slots on screen at the same time
MaxScripts == 3      \* script insertions after which nothing new is mounted
MaxHist == 3         \* session history entries after which nothing is pushed
MaxItems == 2        \* stored custom items after which nothing is added
MaxBatch == 2        \* longest import batch
MaxDeleted == 2      \* length of the deleted-items list after which nothing is appended
MaxSkuLen == 15      \* longest SKU typed into the GS1 form (the form takes up to 50)
MaxWeight == 1000000 \* largest weight typed into the GS1 form, in thousandths

Null == "null"

\* ------------------------------------------------------------------- texts
ValueChars == {"1", "A"}

DigitChars == {"0", "1", "2", "3", "4", "5", "6", "7", "8", "9"}

StringsUpTo(chars, n) == UNION {[1..k -> chars] : k \in 0..n}

Values == StringsUpTo(ValueChars, MaxLen)

\* the two payloads the multi-component specification hands out
LoadValues == {<<"1">>, <<"A">>}

IsDigit(ch) == ch \in DigitChars

\* value.replace(/[^0-9]/g, '')
Digits(s) == SelectSeq(s, IsDigit)

\* `(01)${value}`
Gs1Frame(value) == <<"(", "0", "1", ")">> \o value

\* gs1Data || `(01)${value}`   (an absent or empty gs1Data is falsy)
BarcodeData(value, gs1Data) == IF gs1Data # <<>> THEN gs1Data ELSE Gs1Frame(value)

\* ----------------------------------------------------------------- backend
\* bwip-js is an external library: which texts it encodes is not decided by
\* this repository.  A backend is one fixed, deterministic acceptance policy.
Backends == {"all", "digits", "none"}

\* TRUE: the symbol was painted; FALSE: toCanvas threw
toCanvas(be, text) ==
  CASE be = "all" -> text # <<>>
    [] be = "digits" -> text # <<>> /\ Digits(text) = text
    [] OTHER -> FALSE

VARIABLES
  bwipjs,         \* window.bwipjs is defined
  backend,        \* the acceptance policy of the library behind window.bwipjs
  scriptCount,    \* number of <script> elements appended so far
  orphanScripts,  \* pending scripts whose component is gone
  comps,          \* component slot -> component instance
  user,             \* AppContent state: the session user, or Null
  storedUser,       \* localStorage item elera_user, or Null
  currentView,      \* AppContent state
  selectedCategory, \* AppContent state
  initialSearch,    \* AppContent state
  history,          \* the state objects of the session history entries
  histIdx,          \* the current session history entry
  mountUser,        \* the `user` the popstate listener closed over at mount
  loginError,       \* Login state: the error message shown, or ""
  last,             \* the handler that ran last, with the credentials it was given
  customItems,      \* ItemsView state, saved as elera_customItems
  deletedItems,     \* ItemsView state, saved as elera_deletedItems
  showAddModal,     \* ItemsView state
  editItem,         \* ItemsView state: the displayed item being edited, or NoItem
  deleteItem,       \* ItemsView state: the displayed item to delete, or NoItem
  showImportModal,  \* ItemsView state
  preview,          \* ImportModal state: the parsed batch
  duplicates,       \* ImportModal state: the batch items listed as duplicates
  report,           \* what the last add / edit / import told the user
  catalog,          \* itemsData.groups, the built-in catalog
  favorites,        \* ItemsView state, saved as elera_favorites
  formData,         \* AddItemModal state: the fields of the form
  itemData,         \* the itemData handleSubmit handed to onSave, or NoItemData
  linear            \* one Barcode component with its <canvas>

barcodeVars == <<bwipjs, backend, scriptCount, orphanScripts, comps>>

navVars == <<user, storedUser, currentView, selectedCategory, initialSearch,
             history, histIdx, mountUser, loginError, last>>

itemVars == <<customItems, deletedItems, showAddModal, editItem, deleteItem,
              showImportModal, preview, duplicates, report>>

codecVars == <<formData, itemData>>

linearVars == <<linear>>

shelfVars == <<catalog, favorites>>

notBarcodeVars == <<navVars, itemVars, codecVars, linearVars, shelfVars>>

notNavVars == <<barcodeVars, itemVars, codecVars, linearVars, shelfVars>>

notItemVars == <<barcodeVars, navVars, codecVars, linearVars, shelfVars>>

notCodecVars == <<barcodeVars, navVars, itemVars, linearVars, shelfVars>>

notLinearVars == <<barcodeVars, navVars, itemVars, codecVars, shelfVars>>

Comps == 1..MaxComps

Kinds == {"datamatrix", "code128"}

Unmounted ==
  [mounted |-> FALSE, kind |-> "datamatrix", loaded |-> FALSE, error |-> FALSE,
   script |-> "none", value |-> <<>>, gs1Data |-> <<>>, canvas |-> "none",
   painted |-> <<>>, calls |-> <<>>]

\* what the component function returns
DisplayLoadedFirst(s) ==
  IF ~s.loaded THEN "loading"
  ELSE IF s.error THEN "placeholder"
  ELSE "canvas"

Display(s) ==
  IF s.error THEN "placeholder"
  ELSE IF ~s.loaded THEN "loading"
  ELSE "canvas"

\* React commit: the <canvas> exists (canvasRef.current is set) exactly while
\* the canvas branch is what the component returned
Commit(s) ==
  IF Display(s) = "canvas"
  THEN IF s.canvas = "none" THEN [s EXCEPT !.canvas = "blank", !.painted = <<>>] ELSE s
  ELSE [s EXCEPT !.canvas = "none", !.painted = <<>>]

\* if (!loaded || !canvasRef.current || !window.bwipjs) return;
DrawGuardAbsent(s, lib) == TRUE

DrawGuard(s, lib) == s.loaded /\ s.canvas # "none" /\ lib

\* window.bwipjs.toCanvas(canvasRef.current, {...}): throws without the
\* library or without a canvas element, otherwise the backend decides
TryToCanvas(s, lib, be, text) == lib /\ s.canvas # "none" /\ toCanvas(be, text)

Call(s, lib, be, text, fnc) ==
  [text |-> text, parsefnc |-> fnc, ok |-> TryToCanvas(s, lib, be, text),
   loaded |-> s.loaded, lib |-> lib]

\* the payload of the retry
SimpleDataOfPayload(s) == Digits(BarcodeData(s.value, s.gs1Data))

SimpleData(s) == Digits(s.value)

\* the try / catch / try / catch of DataMatrixBarcode's render effect
DataMatrixAttemptsNoRetry(s, lib, be) ==
  LET call1 == Call(s, lib, be, BarcodeData(s.value, s.gs1Data), TRUE)
  IN IF call1.ok
     THEN [s EXCEPT !.calls = <<call1>>, !.error = FALSE,
                    !.canvas = "drawn", !.painted = call1.text]
     ELSE [s EXCEPT !.calls = <<call1>>, !.error = TRUE]

DataMatrixAttempts(s, lib, be) ==
  LET call1 == Call(s, lib, be, BarcodeData(s.value, s.gs1Data), TRUE)
      call2 == Call(s, lib, be, SimpleData(s), FALSE)
  IN IF call1.ok
     THEN [s EXCEPT !.calls = <<call1>>, !.error = FALSE,
                    !.canvas = "drawn", !.painted = call1.text]
     ELSE IF call2.ok
     THEN [s EXCEPT !.calls = <<call1, call2>>, !.error = FALSE,
                    !.canvas = "drawn", !.painted = call2.text]
     ELSE [s EXCEPT !.calls = <<call1, call2>>, !.error = TRUE]

\* the try / catch of Code128Barcode's render effect
Code128Attempts(s, lib, be) ==
  LET call1 == Call(s, lib, be, s.value, FALSE)
  IN IF call1.ok
     THEN [s EXCEPT !.calls = <<call1>>, !.error = FALSE,
                    !.canvas = "drawn", !.painted = call1.text]
     ELSE [s EXCEPT !.calls = <<call1>>, !.error = TRUE]

\* the render effect, deps [loaded, value, gs1Data, size]
DrawEffect(s, lib, be) ==
  IF ~DrawGuard(s, lib) THEN s
  ELSE IF s.kind = "datamatrix" THEN DataMatrixAttempts(s, lib, be)
  ELSE Code128Attempts(s, lib, be)

\* one React update of a component whose state or props just changed:
\* commit, run the render effect when one of its deps changed, and commit
\* again for the setError the effect may have made (the deps are then
\* unchanged, so the effect does not run a second time)
RenderPass(s, lib, be, depsChanged) ==
  LET s1 == Commit([s EXCEPT !.calls = <<>>])
      s2 == IF depsChanged THEN DrawEffect(s1, lib, be) ELSE s1
  IN Commit(s2)

\* ------------------------------------------------------- component actions
\* first render plus the mount effect:
\*   if (!window.bwipjs) { append script } else { setLoaded(true) }
Mount(c, kind, value, gs1Data) ==
  LET s == [Unmounted EXCEPT !.mounted = TRUE, !.kind = kind, !.value = value,
                             !.gs1Data = IF kind = "datamatrix" THEN gs1Data ELSE <<>>]
      \* first render: both effects run, the render effect with loaded = false
      first == RenderPass(s, bwipjs, backend, TRUE)
  IN /\ ~comps[c].mounted
     /\ IF ~bwipjs
        THEN /\ scriptCount < MaxScripts
             /\ scriptCount' = scriptCount + 1
             /\ comps' = [comps EXCEPT ![c] = [first EXCEPT !.script = "pending"]]
        ELSE /\ scriptCount' = scriptCount
             /\ comps' = [comps EXCEPT ![c] =
                            RenderPass([first EXCEPT !.loaded = TRUE], bwipjs, backend, TRUE)]
     /\ UNCHANGED <<bwipjs, backend, orphanScripts>>
     /\ UNCHANGED notBarcodeVars

\* the parent re-renders the component with another value / gs1Data
SetProps(c, value, gs1Data) ==
  LET g == IF comps[c].kind = "datamatrix" THEN gs1Data ELSE <<>>
  IN /\ comps[c].mounted
     /\ <<value, g>> # <<comps[c].value, comps[c].gs1Data>>
     /\ comps' = [comps EXCEPT ![c] =
                    RenderPass([comps[c] EXCEPT !.value = value, !.gs1Data = g],
                               bwipjs, backend, TRUE)]
     /\ UNCHANGED <<bwipjs, backend, scriptCount, orphanScripts>>
     /\ UNCHANGED notBarcodeVars

\* script.onload = () => setLoaded(true); the script has defined window.bwipjs
ScriptOnLoad(c) ==
  /\ comps[c].mounted
  /\ comps[c].script = "pending"
  /\ bwipjs' = TRUE
  /\ comps' = [comps EXCEPT ![c] =
                 RenderPass([comps[c] EXCEPT !.script = "loaded", !.loaded = TRUE],
                            TRUE, backend, TRUE)]
  /\ UNCHANGED <<backend, scriptCount, orphanScripts>>
  /\ UNCHANGED notBarcodeVars

\* script.onerror = () => setError(true)
ScriptOnErrorIgnored(c) ==
  /\ comps[c].mounted
  /\ comps[c].script = "pending"
  /\ comps' = [comps EXCEPT ![c] =
                 RenderPass([comps[c] EXCEPT !.script = "failed"], bwipjs, backend, FALSE)]
  /\ UNCHANGED <<bwipjs, backend, scriptCount, orphanScripts>>
  /\ UNCHANGED notBarcodeVars

ScriptOnError(c) ==
  /\ comps[c].mounted
  /\ comps[c].script = "pending"
  /\ comps' = [comps EXCEPT ![c] =
                 RenderPass([comps[c] EXCEPT !.script = "failed", !.error = TRUE],
                            bwipjs, backend, FALSE)]
  /\ UNCHANGED <<bwipjs, backend, scriptCount, orphanScripts>>
  /\ UNCHANGED notBarcodeVars

\* the component leaves the screen; a script it appended stays in the document
Unmount(c) ==
  /\ comps[c].mounted
  /\ orphanScripts' = IF comps[c].script = "pending" THEN orphanScripts + 1 ELSE orphanScripts
  /\ comps' = [comps EXCEPT ![c] = Unmounted]
  /\ UNCHANGED <<bwipjs, backend, scriptCount>>
  /\ UNCHANGED notBarcodeVars

\* a script of a component that is gone finishes loading (setLoaded on it is a no-op)
OrphanOnLoad ==
  /\ orphanScripts > 0
  /\ orphanScripts' = orphanScripts - 1
  /\ bwipjs' = TRUE
  /\ UNCHANGED <<backend, scriptCount, comps>>
  /\ UNCHANGED notBarcodeVars

OrphanOnError ==
  /\ orphanScripts > 0
  /\ orphanScripts' = orphanScripts - 1
  /\ UNCHANGED <<bwipjs, backend, scriptCount, comps>>
  /\ UNCHANGED notBarcodeVars

BarcodeInit ==
  /\ bwipjs = FALSE
  /\ backend \in Backends
  /\ scriptCount = 0
  /\ orphanScripts = 0
  /\ comps = [c \in Comps |-> Unmounted]

vars == <<barcodeVars, navVars, itemVars, codecVars, linearVars, shelfVars>>

\* ------------------------------------------------- login and navigation
Usernames == {"admin", "demo", "guest", "Admin", ""}

Passwords == {"elera2025", "demo", "guest", ""}

\* what the Dashboard can hand to onSelectCategory: a category card, or the
\* search box (category items with the trimmed search term)
Selections ==
  {<<"grocery", "">>, <<"items", "">>, <<"items", "q">>, <<"pharmacy", "">>, <<"gs1", "">>}

InvalidCredentials == "Invalid credentials. Please try again."

DashboardState == [view |-> "dashboard", category |-> Null, search |-> ""]

\* the if / else-if chain of Login.handleLogin
ValidCredentialsAnyField(username, password) ==
  IF username = "admin" \/ password = "elera2025" THEN TRUE
  ELSE IF username = "demo" /\ password = "demo" THEN TRUE
  ELSE IF username = "guest" /\ password = "guest" THEN TRUE
  ELSE FALSE

ValidCredentials(username, password) ==
  IF username = "admin" /\ password = "elera2025" THEN TRUE
  ELSE IF username = "demo" /\ password = "demo" THEN TRUE
  ELSE IF username = "guest" /\ password = "guest" THEN TRUE
  ELSE FALSE

\* AppContent's render: if (!user && storedUser) { setUser(storedUser); return null; }
RenderUser(u, stored) == IF u = Null /\ stored # Null THEN stored ELSE u

\* what AppContent returns
Screen ==
  IF user = Null /\ storedUser = Null THEN "login"
  ELSE IF user = Null THEN "none"
  ELSE IF currentView = "scanbook" /\ selectedCategory = "items" THEN "items"
  ELSE IF currentView = "scanbook" /\ selectedCategory = "pharmacy" THEN "pharmacy"
  ELSE IF currentView = "scanbook" /\ selectedCategory = "gs1" THEN "gs1"
  ELSE IF currentView = "scanbook" /\ selectedCategory # Null THEN "scanbook"
  ELSE "dashboard"

CategoryScreens == {"scanbook", "items", "pharmacy", "gs1"}

\* window.history.replaceState(state, '')
ReplaceState(state) == [history EXCEPT ![histIdx] = state]

\* Login.handleLogin, and on success AppContent.handleLogin(username)
handleLoginNoStore(username, password) ==
  /\ Screen = "login"
  /\ last' = [op |-> "login", username |-> username, password |-> password]
  /\ IF ValidCredentials(username, password)
     THEN /\ user' = username
          /\ history' = ReplaceState(DashboardState)
          /\ loginError' = ""
     ELSE /\ loginError' = InvalidCredentials
          /\ UNCHANGED <<user, history>>
  /\ UNCHANGED <<storedUser, currentView, selectedCategory, initialSearch, histIdx, mountUser>>
  /\ UNCHANGED notNavVars

handleLogin(username, password) ==
  /\ Screen = "login"
  /\ last' = [op |-> "login", username |-> username, password |-> password]
  /\ IF ValidCredentials(username, password)
     THEN /\ storedUser' = username
          /\ user' = username
          /\ history' = ReplaceState(DashboardState)
          /\ loginError' = ""
     ELSE /\ loginError' = InvalidCredentials
          /\ UNCHANGED <<storedUser, user, history>>
  /\ UNCHANGED <<currentView, selectedCategory, initialSearch, histIdx, mountUser>>
  /\ UNCHANGED notNavVars

\* AppContent.handleLogout (the Sign Out button of the Dashboard)
handleLogoutKeepsStorage ==
  /\ Screen = "dashboard"
  /\ last' = [op |-> "logout", username |-> "", password |-> ""]
  /\ user' = RenderUser(Null, storedUser)
  /\ currentView' = "dashboard"
  /\ selectedCategory' = Null
  /\ initialSearch' = ""
  /\ history' = ReplaceState(DashboardState)
  /\ loginError' = ""
  /\ UNCHANGED <<storedUser, histIdx, mountUser>>
  /\ UNCHANGED notNavVars

handleLogout ==
  /\ Screen = "dashboard"
  /\ last' = [op |-> "logout", username |-> "", password |-> ""]
  /\ storedUser' = Null
  /\ user' = Null
  /\ currentView' = "dashboard"
  /\ selectedCategory' = Null
  /\ initialSearch' = ""
  /\ history' = ReplaceState(DashboardState)
  /\ loginError' = ""
  /\ UNCHANGED <<histIdx, mountUser>>
  /\ UNCHANGED notNavVars

\* AppContent.handleSelectCategory(category, search); pushState drops the
\* entries ahead of the current one
handleSelectCategory(category, search) ==
  /\ Screen = "dashboard"
  /\ histIdx < MaxHist
  /\ last' = [op |-> "select", username |-> "", password |-> ""]
  /\ selectedCategory' = category
  /\ currentView' = "scanbook"
  /\ initialSearch' = search
  /\ history' = Append(SubSeq(history, 1, histIdx),
                       [view |-> "scanbook", category |-> category, search |-> search])
  /\ histIdx' = histIdx + 1
  /\ UNCHANGED <<user, storedUser, mountUser, loginError>>
  /\ UNCHANGED notNavVars

\* the popstate listener, run for the entry the browser moved to
handlePopState(op, idx) ==
  LET state == history[idx]
      restored == IF storedUser # Null /\ mountUser = Null THEN storedUser ELSE user
  IN /\ idx \in 1..Len(history)
     /\ last' = [op |-> op, username |-> "", password |-> ""]
     /\ histIdx' = idx
     /\ user' = RenderUser(restored, storedUser)
     /\ IF state.view # Null   \* if (e.state && e.state.view)
        THEN /\ currentView' = state.view
             /\ selectedCategory' = state.category
             /\ initialSearch' = state.search
             /\ history' = history
        ELSE /\ currentView' = "dashboard"
             /\ selectedCategory' = Null
             /\ initialSearch' = ""
             /\ history' = [history EXCEPT ![idx] = DashboardState]
     /\ UNCHANGED <<storedUser, mountUser, loginError>>
     /\ UNCHANGED notNavVars

\* a Back button that reloads the current entry: history.go(0)
handleBackSameEntry ==
  /\ Screen \in CategoryScreens
  /\ handlePopState("back", histIdx)

\* AppContent.handleBack (the Back button of a category view): history.back()
handleBack ==
  /\ Screen \in CategoryScreens
  /\ handlePopState("back", histIdx - 1)

\* the browser's own back and forward buttons
BrowserBack == handlePopState("popstate", histIdx - 1)

BrowserForward == handlePopState("popstate", histIdx + 1)

\* page reload: AppContent mounts again, useState(() => localStorage.getItem(
\* 'elera_user')), and the mount effect replaces the current history state
Reload ==
  /\ last' = [op |-> "reload", username |-> "", password |-> ""]
  /\ user' = storedUser
  /\ mountUser' = storedUser
  /\ currentView' = "dashboard"
  /\ selectedCategory' = Null
  /\ initialSearch' = ""
  /\ history' = ReplaceState(DashboardState)
  /\ loginError' = ""
  /\ UNCHANGED <<storedUser, histIdx>>
  /\ UNCHANGED notNavVars

\* first visit: nothing stored, one history entry
NavInit ==
  /\ user = Null
  /\ storedUser = Null
  /\ currentView = "dashboard"
  /\ selectedCategory = Null
  /\ initialSearch = ""
  /\ history = <<DashboardState>>
  /\ histIdx = 1
  /\ mountUser = Null
  /\ loginError = ""
  /\ last = [op |-> "mount", username |-> "", password |-> ""]

\* no component on screen, the library not requested
BarcodeIdle ==
  /\ bwipjs = FALSE
  /\ backend = "all"
  /\ scriptCount = 0
  /\ orphanScripts = 0
  /\ comps = [c \in Comps |-> Unmounted]

\* ------------------------------------------------------------ items view
\* itemsData: a catalog of one department with one item (its SKUs are unique)
CatalogGroups == <<[id |-> "Dept_1", skus |-> <<"p1">>]>>

\* itemsData as shipped: some SKUs are listed in two departments (4033 is
\* Limon in CL_Produce and Lemons in Dept_2A_QtyRequired)
ItemsDataGroups ==
  <<[id |-> "Dept_1", skus |-> <<"p1">>], [id |-> "Dept_2", skus |-> <<"p1">>]>>

\* SKUs a user types or imports; P1 differs from catalog SKU p1 by case only
UserSkus == {"P1", "n1"}

\* sku.toLowerCase()
ToLowerCase(sku) ==
  CASE sku = "P1" -> "p1"
    [] sku = "N1" -> "n1"
    [] OTHER -> sku

\* the options of the form's department select
FormDepartments == {"Custom_Items", "Dept_1"}

\* departments an imported file can name: any text, here one that is no group id
ImportDepartments == {"Custom_Items", "Other"}

NoItem == [id |-> 0, sku |-> "", department |-> "", isCustom |-> FALSE, isEdited |-> FALSE]

\* a catalog entry has no id, no department and no flags
CatalogItem(sku) == [NoItem EXCEPT !.sku = sku]

Includes(seq, x) == \E i \in 1..Len(seq) : seq[i] = x

RECURSIVE MapSeq(_, _)
MapSeq(Op(_), seq) ==
  IF seq = <<>> THEN <<>> ELSE <<Op(Head(seq))>> \o MapSeq(Op, Tail(seq))

RECURSIVE FlatMap(_)
FlatMap(groups) ==
  IF groups = <<>> THEN <<>> ELSE Head(groups).items \o FlatMap(Tail(groups))

\* item.department || 'Custom_Items'
DeptOf(item) == IF item.department = "" THEN "Custom_Items" ELSE item.department

\* customItemsByDept[dept]
CustomItemsByDept(custom, dept) == SelectSeq(custom, LAMBDA i : DeptOf(i) = dept)

\* allGroups: the catalog without the items whose SKU is in deletedItems
AllGroups(deleted) ==
  MapSeq(LAMBDA g : [id |-> g.id,
                     items |-> MapSeq(CatalogItem,
                                      SelectSeq(g.skus, LAMBDA s : ~Includes(deleted, s)))],
         catalog)

\* mergedGroups: the Custom_Items group first when it is not empty, then the
\* catalog groups, each followed by the custom items of its department
MergedGroups(custom, deleted) ==
  LET own == CustomItemsByDept(custom, "Custom_Items")
      merged == MapSeq(LAMBDA g : [id |-> g.id,
                                   items |-> g.items \o
                                     MapSeq(LAMBDA i : [i EXCEPT !.isCustom = TRUE],
                                            CustomItemsByDept(custom, g.id))],
                       AllGroups(deleted))
  IN IF own # <<>> THEN <<[id |-> "Custom_Items", items |-> own]>> \o merged ELSE merged

\* allExistingItems = mergedGroups.flatMap(group => group.items)
AllExistingItems == FlatMap(MergedGroups(customItems, deletedItems))

SeqToSet(seq) == {seq[i] : i \in 1..Len(seq)}

\* Date.now().toString(): an id no stored, previewed or edited item carries
FreshId(taken) == CHOOSE n \in 1..(Cardinality(taken) + 1) : n \notin taken

\* Ids are opaque and only compared with ===, so the stored list is kept
\* with its ids renamed to base + 1, base + 2, ... in list order (stored
\* items from 0, previewed items from MaxItems up)
Canon(items, base) == [k \in 1..Len(items) |-> [items[k] EXCEPT !.id = base + k]]

IdsInUse ==
  {i.id : i \in SeqToSet(customItems) \cup SeqToSet(preview) \cup {editItem, deleteItem}}

NoModal == ~showAddModal /\ deleteItem = NoItem /\ ~showImportModal

InItemsView == Screen = "items"

\* AddItemModal.checkDuplicate(sku): the item found, or NoItem
checkDuplicate(sku) ==
  LET hits == SelectSeq(AllExistingItems,
                LAMBDA item : /\ ToLowerCase(item.sku) = ToLowerCase(sku)
                              /\ (editItem = NoItem \/
                                  ToLowerCase(item.sku) # ToLowerCase(editItem.sku)))
  IN IF sku = "" \/ hits = <<>> THEN NoItem ELSE Head(hits)

\* AddItemModal.validate: the keys of newErrors
validate(name, sku) ==
  (IF name = "" THEN {"name"} ELSE {}) \cup
  (IF sku = "" \/ checkDuplicate(sku) # NoItem THEN {"sku"} ELSE {})

\* ItemsView.handleSaveItem(item)
handleSaveItem(item) ==
  IF editItem # NoItem
  THEN IF \E i \in 1..Len(customItems) : customItems[i].id = item.id
       THEN /\ customItems' = [i \in 1..Len(customItems) |->
                                 IF customItems[i].id = item.id THEN item ELSE customItems[i]]
            /\ deletedItems' = deletedItems
       ELSE /\ customItems' = Canon(Append(customItems, [item EXCEPT !.isEdited = TRUE]), 0)
            /\ deletedItems' =
                 IF editItem.sku # "" /\ ~editItem.isCustom /\ ~editItem.isEdited
                 THEN Append(deletedItems, editItem.sku)
                 ELSE deletedItems
  ELSE /\ customItems' = Canon(Append(customItems, [item EXCEPT !.isCustom = TRUE]), 0)
       /\ deletedItems' = deletedItems

\* the Add New Item buttons
OpenAddModal ==
  /\ InItemsView /\ NoModal
  /\ showAddModal' = TRUE
  /\ editItem' = NoItem
  /\ report' = ""
  /\ UNCHANGED <<customItems, deletedItems, deleteItem, showImportModal, preview, duplicates>>
  /\ UNCHANGED notItemVars

\* the Edit button rendered for every user
handleEditItemAnyUser(k) ==
  /\ InItemsView /\ NoModal
  /\ k \in 1..Len(AllExistingItems)
  /\ editItem' = AllExistingItems[k]
  /\ showAddModal' = TRUE
  /\ report' = ""
  /\ UNCHANGED <<customItems, deletedItems, deleteItem, showImportModal, preview, duplicates>>
  /\ UNCHANGED notItemVars

\* ItemsView.handleEditItem(item): the Edit button, rendered for admin only
handleEditItem(k) ==
  /\ InItemsView /\ NoModal
  /\ user = "admin"
  /\ k \in 1..Len(AllExistingItems)
  /\ editItem' = AllExistingItems[k]
  /\ showAddModal' = TRUE
  /\ report' = ""
  /\ UNCHANGED <<customItems, deletedItems, deleteItem, showImportModal, preview, duplicates>>
  /\ UNCHANGED notItemVars

\* AddItemModal.handleSubmit with the form filled in
handleSubmit(name, sku, department) ==
  LET item == [id |-> IF editItem.id # 0 THEN editItem.id ELSE FreshId(IdsInUse),
               sku |-> sku, department |-> department,
               isCustom |-> FALSE, isEdited |-> FALSE]
  IN /\ InItemsView
     /\ showAddModal
     /\ IF validate(name, sku) = {}
        THEN /\ Len(customItems) < MaxItems \/ item.id \in {i.id : i \in SeqToSet(customItems)}
             /\ Len(deletedItems) < MaxDeleted \/ editItem = NoItem
             /\ handleSaveItem(item)
             /\ showAddModal' = FALSE
             /\ editItem' = NoItem
             /\ report' = ""
        ELSE /\ report' = IF "sku" \in validate(name, sku) /\ checkDuplicate(sku) # NoItem
                          THEN "duplicate" ELSE "invalid"
             /\ UNCHANGED <<customItems, deletedItems, showAddModal, editItem>>
     /\ UNCHANGED <<deleteItem, showImportModal, preview, duplicates>>
     /\ UNCHANGED notItemVars

\* the modal's close / cancel buttons
CloseAddModal ==
  /\ InItemsView
  /\ showAddModal
  /\ showAddModal' = FALSE
  /\ editItem' = NoItem
  /\ report' = ""
  /\ UNCHANGED <<customItems, deletedItems, deleteItem, showImportModal, preview, duplicates>>
  /\ UNCHANGED notItemVars

\* the Delete button, rendered for admin only
AskDelete(k) ==
  /\ InItemsView /\ NoModal
  /\ user = "admin"
  /\ k \in 1..Len(AllExistingItems)
  /\ deleteItem' = AllExistingItems[k]
  /\ UNCHANGED <<customItems, deletedItems, showAddModal, editItem, showImportModal,
                 preview, duplicates, report>>
  /\ UNCHANGED notItemVars

\* ItemsView.handleDeleteItem: the confirmation
handleDeleteItem ==
  /\ InItemsView
  /\ deleteItem # NoItem
  /\ IF deleteItem.isCustom \/ deleteItem.isEdited
     THEN /\ customItems' = Canon(SelectSeq(customItems, LAMBDA i : i.id # deleteItem.id), 0)
          /\ deletedItems' = deletedItems
     ELSE /\ Len(deletedItems) < MaxDeleted
          /\ deletedItems' = Append(deletedItems, deleteItem.sku)
          /\ customItems' = customItems
  /\ deleteItem' = NoItem
  /\ UNCHANGED <<showAddModal, editItem, showImportModal, preview, duplicates, report>>
  /\ UNCHANGED notItemVars

CancelDelete ==
  /\ InItemsView
  /\ deleteItem # NoItem
  /\ deleteItem' = NoItem
  /\ UNCHANGED <<customItems, deletedItems, showAddModal, editItem, showImportModal,
                 preview, duplicates, report>>
  /\ UNCHANGED notItemVars

\* the Import button; the modal keeps its state while it is closed
OpenImportModal ==
  /\ InItemsView /\ NoModal
  /\ showImportModal' = TRUE
  /\ report' = ""
  /\ UNCHANGED <<customItems, deletedItems, showAddModal, editItem, deleteItem,
                 preview, duplicates>>
  /\ UNCHANGED notItemVars

CloseImportModal ==
  /\ InItemsView
  /\ showImportModal
  /\ showImportModal' = FALSE
  /\ UNCHANGED <<customItems, deletedItems, showAddModal, editItem, deleteItem,
                 preview, duplicates, report>>
  /\ UNCHANGED notItemVars

\* ImportModal.checkExistingDuplicate(sku)
checkExistingDuplicate(sku) ==
  \E i \in 1..Len(AllExistingItems) :
    ToLowerCase(AllExistingItems[i].sku) = ToLowerCase(sku)

\* the dupes of ImportModal.handlePreview: a batch item whose SKU exists, or
\* else whose SKU an earlier batch item has
Dupes(items) ==
  LET isDupe(k) ==
        \/ checkExistingDuplicate(items[k].sku)
        \/ \E j \in 1..(k - 1) : ToLowerCase(items[j].sku) = ToLowerCase(items[k].sku)
      RECURSIVE collect(_)
      collect(k) == IF k > Len(items) THEN <<>>
                    ELSE (IF isDupe(k) THEN <<items[k]>> ELSE <<>>) \o collect(k + 1)
  IN collect(1)

\* parseCSV / parseJSON give every row a new id
RECURSIVE WithIds(_, _)
WithIds(rows, taken) ==
  IF rows = <<>> THEN <<>>
  ELSE LET id == FreshId(taken)
       IN <<[id |-> id, sku |-> Head(rows)[1], department |-> Head(rows)[2],
             isCustom |-> FALSE, isEdited |-> FALSE]>> \o WithIds(Tail(rows), taken \cup {id})

Batches == UNION {[1..n -> UserSkus \X ImportDepartments] : n \in 1..MaxBatch}

\* ImportModal.handlePreview; the button is shown while there is no preview
handlePreview(rows) ==
  LET items == WithIds(rows, IdsInUse)
  IN /\ InItemsView
     /\ showImportModal
     /\ preview = <<>>
     /\ duplicates' = Dupes(Canon(items, MaxItems))
     /\ preview' = Canon(items, MaxItems)
     /\ report' = ""
     /\ UNCHANGED <<customItems, deletedItems, showAddModal, editItem, deleteItem,
                    showImportModal>>
     /\ UNCHANGED notItemVars

\* ImportModal.handleFileUpload: a chosen file replaces the text and the preview
handleFileUpload ==
  /\ InItemsView
  /\ showImportModal
  /\ preview # <<>>
  /\ preview' = <<>>
  /\ duplicates' = <<>>
  /\ report' = ""
  /\ UNCHANGED <<customItems, deletedItems, showAddModal, editItem, deleteItem,
                 showImportModal>>
  /\ UNCHANGED notItemVars

\* ImportModal.handleImport and ItemsView's onImport; the button is enabled
\* while preview.length - duplicates.length is not 0
handleImport ==
  LET duplicateSkus == {ToLowerCase(d.sku) : d \in SeqToSet(duplicates)}
      itemsToImport == SelectSeq(preview, LAMBDA i : ToLowerCase(i.sku) \notin duplicateSkus)
  IN /\ InItemsView
     /\ showImportModal
     /\ preview # <<>>
     /\ Len(preview) - Len(duplicates) # 0
     /\ IF itemsToImport = <<>>
        THEN /\ report' = "nothing to import"
             /\ UNCHANGED <<customItems, showImportModal, preview, duplicates>>
        ELSE /\ Len(customItems) + Len(itemsToImport) <= MaxItems
             /\ customItems' = Canon(customItems \o
                                 MapSeq(LAMBDA i : [i EXCEPT !.isCustom = TRUE], itemsToImport), 0)
             /\ preview' = <<>>
             /\ duplicates' = <<>>
             /\ showImportModal' = FALSE
             /\ report' = ""
     /\ UNCHANGED <<deletedItems, showAddModal, editItem, deleteItem>>
     /\ UNCHANGED notItemVars

\* nothing stored yet, no modal open
NothingStored ==
  /\ customItems = <<>>
  /\ deletedItems = <<>>
  /\ showAddModal = FALSE
  /\ editItem = NoItem
  /\ deleteItem = NoItem
  /\ showImportModal = FALSE
  /\ preview = <<>>
  /\ duplicates = <<>>
  /\ report = ""
  /\ favorites = <<>>

\* the items view over a catalog whose SKUs are unique
ItemsIdle == NothingStored /\ catalog = CatalogGroups

\* a logged-in user who opened the Items card of the dashboard
ItemsOpened ==
  /\ user \in {"admin", "demo"}
  /\ storedUser = user
  /\ mountUser = Null
  /\ currentView = "scanbook"
  /\ selectedCategory = "items"
  /\ initialSearch = ""
  /\ history = <<DashboardState, [view |-> "scanbook", category |-> "items", search |-> ""]>>
  /\ histIdx = 2
  /\ loginError = ""
  /\ last = [op |-> "select", username |-> "", password |-> ""]

ItemsInit == ItemsOpened /\ ItemsIdle

\* the same user over the catalog as shipped
ShippedInit == ItemsOpened /\ NothingStored /\ catalog = ItemsDataGroups

\* ItemsView.toggleFavorite(item.sku): the star of a displayed item
toggleFavorite(k) ==
  /\ InItemsView /\ NoModal
  /\ k \in 1..Len(AllExistingItems)
  /\ LET sku == AllExistingItems[k].sku
     IN favorites' = IF Includes(favorites, sku)
                     THEN SelectSeq(favorites, LAMBDA s : s # sku)
                     ELSE Append(favorites, sku)
  /\ UNCHANGED <<catalog, itemVars, barcodeVars, navVars, codecVars, linearVars>>

\* the count on the Favorites button
totalFavorites == Len(favorites)

\* Dashboard.totalItems, the count on the Items card: every catalog entry
\* plus the stored custom items
RECURSIVE CatalogCount(_)
CatalogCount(groups) ==
  IF groups = <<>> THEN 0 ELSE Len(Head(groups).skus) + CatalogCount(Tail(groups))

totalItems == CatalogCount(catalog) + Len(customItems)

\* the Back button in the header of the items view
BackFromItems == InItemsView /\ NoModal /\ handleBack

\* the Items card of the dashboard
OpenItems == handleSelectCategory("items", "")

\* ------------------------------------------------- GS1 element strings
\* String.prototype.padStart(n, '0')
RECURSIVE PadStart(_, _)
PadStart(s, n) == IF Len(s) >= n THEN s ELSE PadStart(<<"0">> \o s, n)

\* date.replace(/-/g, '').substring(2)
DateStrKeepsCentury(date) == SelectSeq(date, LAMBDA ch : ch # "-")

DateStr(date) ==
  LET stripped == SelectSeq(date, LAMBDA ch : ch # "-")
  IN SubSeq(stripped, 3, Len(stripped))

DigitOf(n) == CASE n = 0 -> "0" [] n = 1 -> "1" [] n = 2 -> "2" [] n = 3 -> "3"
                [] n = 4 -> "4" [] n = 5 -> "5" [] n = 6 -> "6" [] n = 7 -> "7"
                [] n = 8 -> "8" [] n = 9 -> "9"

\* the decimal digits of a natural number
RECURSIVE Decimal(_)
Decimal(n) == IF n < 10 THEN <<DigitOf(n)>> ELSE Decimal(n \div 10) \o <<DigitOf(n % 10)>>

\* (parseFloat(formData.weight) * 1000).toFixed(0); the number input has
\* step 0.001, so the weight is held as its number of thousandths
ToFixed0(thousandths) ==
  IF thousandths < 0 THEN <<"-">> \o Decimal(0 - thousandths) ELSE Decimal(thousandths)

\* formData.weightUnit === 'kg' ? '310' : '320', then `(${weightAI}3)`
WeightAI(unit) == (IF unit = "kg" THEN <<"3", "1", "0">> ELSE <<"3", "2", "0">>) \o <<"3">>

\* `(${ai})${value}` appended under if (field)
SegmentWithPlaceholder(ai, present, value) == <<"(">> \o ai \o <<")">> \o value

Segment(ai, present, value) ==
  IF present THEN <<"(">> \o ai \o <<")">> \o value ELSE <<>>

\* formData.gtin || formData.sku.padStart(14, '0')
GtinOfSkuFirst(fd) == IF fd.sku # <<>> THEN PadStart(fd.sku, 14) ELSE fd.gtin

GtinOf(fd) == IF fd.gtin # <<>> THEN fd.gtin ELSE PadStart(fd.sku, 14)

\* AddItemModal.buildGs1String
buildGs1String(fd) ==
  LET gtin == GtinOf(fd)
      date(ai, d) == Segment(ai, d # <<>>, DateStr(d))
  IN Segment(<<"0", "1">>, TRUE, gtin)
     \o date(<<"1", "1">>, fd.productionDate)
     \o date(<<"1", "5">>, fd.bestBeforeDate)
     \o date(<<"1", "6">>, fd.sellByDate)
     \o date(<<"1", "7">>, fd.expirationDate)
     \o Segment(<<"1", "0">>, fd.batchLot # <<>>, fd.batchLot)
     \o Segment(<<"2", "1">>, fd.serialNumber # <<>>, fd.serialNumber)
     \o Segment(WeightAI(fd.weightUnit), fd.weight.given,
                PadStart(ToFixed0(fd.weight.thousandths), 6))

\* the barcode types of the form's select that make a GS1 item
isGs1Type(fd) == fd.barcodeType \in {"GS1 2D", "GS1 QR", "GS1-128"}

BarcodeTypes == {"1D", "GS1 2D"}

\* the GTIN field takes up to 14 characters
Gtins ==
  {<<>>, <<"1", "2", "3">>,
   <<"0", "0", "0", "4", "9", "0", "0", "0", "0", "0", "0", "4", "4", "3">>}

\* SKUs of 6, 14 and up to MaxSkuLen characters
Skus == {<<"1", "2", "3", "4", "5", "6">>} \cup {[k \in 1..n |-> "7"] : n \in 14..MaxSkuLen}

\* what an <input type="date"> holds: nothing, or YYYY-MM-DD
Dates ==
  {<<"2", "0", "2", "5", "-", "1", "2", "-", "1", "5">>,
   <<"1", "9", "9", "9", "-", "0", "1", "-", "3", "1">>}

DateInputs == {<<>>} \cup Dates

TextInputs == {<<>>, <<"A", "1">>}

\* what the weight input holds: nothing, or a number of thousandths
NoWeight == [given |-> FALSE, thousandths |-> 0]

Weights ==
  {NoWeight} \cup
  {[given |-> TRUE, thousandths |-> n] : n \in {0, 1500, 0 - 1500, MaxWeight - 1, MaxWeight}}

FormInputs ==
  [barcodeType : BarcodeTypes, gtin : Gtins, sku : Skus,
   productionDate : DateInputs, bestBeforeDate : DateInputs,
   sellByDate : DateInputs, expirationDate : DateInputs,
   batchLot : TextInputs, serialNumber : TextInputs,
   weight : Weights, weightUnit : {"kg", "lb"}]

\* the empty form of AddItemModal
EmptyForm ==
  [barcodeType |-> "1D", gtin |-> <<>>, sku |-> <<>>,
   productionDate |-> <<>>, bestBeforeDate |-> <<>>, sellByDate |-> <<>>,
   expirationDate |-> <<>>, batchLot |-> <<>>, serialNumber |-> <<>>,
   weight |-> NoWeight, weightUnit |-> "kg"]

NoItemData == [saved |-> FALSE, gs1String |-> <<>>, gs1Display |-> <<>>]

\* AddItemModal.handleSubmit for a filled-in form whose SKU is new: the GS1
\* fields of the itemData that goes to onSave
handleSubmitGs1 ==
  /\ ~itemData.saved
  /\ formData.sku # <<>> /\ Len(formData.sku) <= 50
  /\ itemData' = IF isGs1Type(formData)
                 THEN [saved |-> TRUE, gs1String |-> buildGs1String(formData),
                       gs1Display |-> buildGs1String(formData)]
                 ELSE [NoItemData EXCEPT !.saved = TRUE]
  /\ formData' = formData
  /\ UNCHANGED notCodecVars

\* the form is not open
CodecIdle ==
  /\ formData = EmptyForm
  /\ itemData = NoItemData

\* the form filled in, not submitted yet
CodecInit ==
  /\ formData \in FormInputs
  /\ itemData = NoItemData

\* ---------------------------------------------------- linear Barcode
\* the characters of a Barcode value: digits and one character that is none
LinearChars == {"0", "1", "9", "A"}

LinearValues == StringsUpTo(LinearChars, MaxLen)

\* the height props the views pass, and the default
Heights == {40, 50, 60}

barWidth == 2

\* the patterns table, one bit per module
patterns ==
  [d \in DigitChars |->
     CASE d = "0" -> <<1, 1, 1, 0, 0, 1, 0>> [] d = "1" -> <<1, 1, 0, 0, 1, 1, 0>>
       [] d = "2" -> <<1, 1, 0, 1, 1, 0, 0>> [] d = "3" -> <<1, 0, 0, 0, 0, 1, 0>>
       [] d = "4" -> <<1, 0, 1, 1, 1, 0, 0>> [] d = "5" -> <<1, 0, 0, 1, 1, 1, 0>>
       [] d = "6" -> <<1, 0, 1, 0, 0, 0, 0>> [] d = "7" -> <<1, 0, 0, 0, 1, 0, 0>>
       [] d = "8" -> <<1, 0, 0, 1, 0, 0, 0>> [] d = "9" -> <<1, 1, 1, 0, 1, 0, 0>>]

\* patterns[digit] || patterns['0']
PatternOf(digit) == IF digit \in DOMAIN patterns THEN patterns[digit] ELSE patterns["0"]

\* ctx.fillRect(x, 0, barWidth, height)
Rect(x, height) == [x |-> x, w |-> barWidth, h |-> height]

\* for (const bit of pattern) { if (bit === '1') fillRect; x += barWidth }
RECURSIVE PatternRects(_, _, _)
PatternRects(pattern, x, height) ==
  IF pattern = <<>> THEN <<>>
  ELSE (IF Head(pattern) = 1 THEN <<Rect(x, height)>> ELSE <<>>)
       \o PatternRects(Tail(pattern), x + barWidth, height)

\* for (const digit of code): the pattern, then x += barWidth; then the two
\* bars of the end guard
RECURSIVE DigitRects(_, _, _)
DigitRects(code, x, height) ==
  IF code = <<>> THEN <<Rect(x, height), Rect(x + barWidth * 2, height)>>
  ELSE PatternRects(PatternOf(Head(code)), x, height)
       \o DigitRects(Tail(code), x + 7 * barWidth + barWidth, height)

\* a <canvas> element as the browser creates it
NewCanvas == [width |-> 300, height |-> 150, rects |-> <<>>, text |-> <<>>]

NoLinear == [mounted |-> FALSE, value |-> <<>>, height |-> 60, canvas |-> NewCanvas]

\* if (!canvasRef.current || !value) return;
LinearGuard(s) == s.mounted /\ s.value # <<>>

\* Barcode's effect, deps [value, height]: size the canvas (which clears
\* it), paint the start guard, the digits, the end guard and the text
LinearEffect(s) ==
  IF ~LinearGuard(s) THEN s
  ELSE LET code == Digits(s.value)
           width == Len(code) * 11 * barWidth + 40
       IN [s EXCEPT !.canvas =
             [width |-> width, height |-> s.height + 20,
              rects |-> <<Rect(20, s.height), Rect(20 + barWidth * 2, s.height)>>
                        \o DigitRects(code, 20 + barWidth * 4, s.height),
              text |-> s.value]]

\* <Barcode value height /> appears: a new canvas, then the effect
MountLinear(value, height) ==
  /\ ~linear.mounted
  /\ linear' = LinearEffect([mounted |-> TRUE, value |-> value, height |-> height,
                             canvas |-> NewCanvas])
  /\ UNCHANGED notLinearVars

\* the parent renders the component with other props: the canvas element
\* stays, the effect runs again
SetLinearProps(value, height) ==
  /\ linear.mounted
  /\ <<value, height>> # <<linear.value, linear.height>>
  /\ linear' = LinearEffect([linear EXCEPT !.value = value, !.height = height])
  /\ UNCHANGED notLinearVars

UnmountLinear ==
  /\ linear.mounted
  /\ linear' = NoLinear
  /\ UNCHANGED notLinearVars

\* no Barcode component on screen
LinearIdle == linear = NoLinear

NextItems ==
  \/ OpenAddModal
  \/ \E k \in 1..(MaxItems + 2) : handleEditItem(k)
  \/ \E name \in {"", "item"}, sku \in UserSkus \cup {"", editItem.sku},
        dept \in FormDepartments : handleSubmit(name, sku, dept)
  \/ CloseAddModal
  \/ \E k \in 1..(MaxItems + 2) : AskDelete(k)
  \/ handleDeleteItem
  \/ CancelDelete
  \/ OpenImportModal
  \/ CloseImportModal
  \/ \E rows \in Batches : handlePreview(rows)
  \/ handleFileUpload
  \/ handleImport

InitItems == ItemsInit /\ BarcodeIdle /\ CodecIdle /\ LinearIdle

SpecItems == InitItems /\ [][NextItems]_vars

\* the items view with files of one row only
OneRowBatches == [1..1 -> UserSkus \X ImportDepartments]

NextRoles ==
  \/ OpenAddModal
  \/ \E k \in 1..(MaxItems + 2) : handleEditItem(k)
  \/ \E name \in {"", "item"}, sku \in UserSkus \cup {"", editItem.sku},
        dept \in FormDepartments : handleSubmit(name, sku, dept)
  \/ CloseAddModal
  \/ \E k \in 1..(MaxItems + 2) : AskDelete(k)
  \/ handleDeleteItem
  \/ CancelDelete
  \/ OpenImportModal
  \/ CloseImportModal
  \/ \E rows \in OneRowBatches : handlePreview(rows)
  \/ handleFileUpload
  \/ handleImport

SpecRoles == InitItems /\ [][NextRoles]_vars

\* the items view over the catalog as shipped: add, edit, delete, the
\* favorite stars, and the way to the dashboard and back
NextShipped ==
  \/ OpenAddModal
  \/ \E k \in 1..(MaxItems + 2) : handleEditItem(k)
  \/ \E name \in {"", "item"}, sku \in UserSkus \cup {"", editItem.sku},
        dept \in FormDepartments : handleSubmit(name, sku, dept)
  \/ CloseAddModal
  \/ \E k \in 1..(MaxItems + 2) : AskDelete(k)
  \/ handleDeleteItem
  \/ CancelDelete
  \/ \E k \in 1..(MaxItems + 2) : toggleFavorite(k)
  \/ BackFromItems
  \/ OpenItems

InitShipped == ShippedInit /\ BarcodeIdle /\ CodecIdle /\ LinearIdle

SpecShipped == InitShipped /\ [][NextShipped]_vars

NextNav ==
  \/ \E u \in Usernames, p \in Passwords : handleLogin(u, p)
  \/ handleLogout
  \/ \E sel \in Selections : handleSelectCategory(sel[1], sel[2])
  \/ handleBack
  \/ BrowserBack
  \/ BrowserForward
  \/ Reload

InitNav == NavInit /\ BarcodeIdle /\ ItemsIdle /\ CodecIdle /\ LinearIdle

SpecNav == InitNav /\ [][NextNav]_vars

\* one component with every value / gs1Data text up to MaxLen
NextRender ==
  \/ \E k \in Kinds, v \in Values, g \in Values : Mount(1, k, v, g)
  \/ \E v \in Values, g \in Values : SetProps(1, v, g)
  \/ ScriptOnLoad(1)
  \/ ScriptOnError(1)
  \/ Unmount(1)
  \/ OrphanOnLoad
  \/ OrphanOnError

\* no user logged in, nothing stored, no component mounted
InitComponents == BarcodeInit /\ NavInit /\ ItemsIdle /\ CodecIdle /\ LinearIdle

SpecRender == InitComponents /\ [][NextRender]_vars

\* several components mounted side by side, as in a list of items
NextLoad ==
  \/ \E c \in Comps, k \in Kinds, v \in LoadValues : Mount(c, k, v, <<>>)
  \/ \E c \in Comps, v \in LoadValues : SetProps(c, v, <<>>)
  \/ \E c \in Comps : ScriptOnLoad(c)
  \/ \E c \in Comps : ScriptOnError(c)
  \/ \E c \in Comps : Unmount(c)
  \/ OrphanOnLoad
  \/ OrphanOnError

SpecLoad == InitComponents /\ [][NextLoad]_vars

\* DataMatrix components only, for the progress of the library load
NextLoadProgress ==
  \/ \E c \in Comps, v \in LoadValues : Mount(c, "datamatrix", v, <<>>)
  \/ \E c \in Comps, v \in LoadValues : SetProps(c, v, <<>>)
  \/ \E c \in Comps : ScriptOnLoad(c)
  \/ \E c \in Comps : ScriptOnError(c)
  \/ \E c \in Comps : Unmount(c)
  \/ OrphanOnLoad
  \/ OrphanOnError

\* every appended script eventually fires onload or onerror
FairLoad ==
  /\ InitComponents
  /\ [][NextLoadProgress]_vars
  /\ \A c \in Comps : WF_vars(ScriptOnLoad(c) \/ ScriptOnError(c))

NextGs1 == handleSubmitGs1

InitGs1 == CodecInit /\ BarcodeIdle /\ NavInit /\ ItemsIdle /\ LinearIdle

SpecGs1 == InitGs1 /\ [][NextGs1]_vars

NextLinear ==
  \/ \E v \in LinearValues, h \in Heights : MountLinear(v, h)
  \/ \E v \in LinearValues, h \in Heights : SetLinearProps(v, h)
  \/ UnmountLinear

InitLinear == LinearIdle /\ BarcodeIdle /\ NavInit /\ ItemsIdle /\ CodecIdle

SpecLinear == InitLinear /\ [][NextLinear]_vars

\* ------------------------------------------------- properties: items view
\* the combined set: the catalog items not hidden by deletedItems, then the
\* stored custom items
CombinedItems == FlatMap(AllGroups(deletedItems)) \o customItems

\* C3: after any sequence of add, edit, delete and import operations in the
\* items view, starting from a catalog whose SKUs are unique, no two items of
\* the combined set of non-deleted catalog items and stored custom items have
\* the same SKU, compared case-insensitively.
C3_UniqueSkus ==
  \A i, j \in 1..Len(CombinedItems) :
    i # j => ToLowerCase(CombinedItems[i].sku) # ToLowerCase(CombinedItems[j].sku)

\* what the items view shows of each displayed item, in display order
Shown == [k \in 1..Len(AllExistingItems) |->
            [sku |-> AllExistingItems[k].sku, department |-> AllExistingItems[k].department]]

RemoveAt(seq, k) == SubSeq(seq, 1, k - 1) \o SubSeq(seq, k + 1, Len(seq))

\* the confirmation of a deletion (a cancel changes neither list)
ConfirmsDelete ==
  /\ deleteItem # NoItem
  /\ deleteItem' = NoItem
  /\ <<customItems, deletedItems>>' # <<customItems, deletedItems>>

\* C21: confirming the deletion of a displayed item, however it was
\* produced, makes that item disappear from the displayed items and leaves
\* every other displayed item displayed.
C21_DeleteRemovesTheItem ==
  [][ConfirmsDelete =>
       \E k \in 1..Len(AllExistingItems) :
         /\ AllExistingItems[k] = deleteItem
         /\ Shown' = RemoveAt(Shown, k)]_vars

\* the Import button of a previewed batch was pressed
ImportPressed ==
  /\ showImportModal
  /\ preview # <<>>
  /\ \/ report' = "nothing to import"
     \/ preview' = <<>> /\ ~showImportModal'

\* C22: for every previewed batch the number of items Import adds equals
\* the count announced on the button, previewed items minus listed
\* duplicates; of batch items sharing a SKU the first one is imported.
C22_ImportsAnnouncedCount ==
  [][ImportPressed =>
       Len(customItems') - Len(customItems) = Len(preview) - Len(duplicates)]_vars

\* in how many places the department groups of the items view show the
\* stored item with this id (empty search, favorites filter off)
TimesDisplayed(id) ==
  LET groups == MergedGroups(customItems, deletedItems)
  IN Cardinality({<<g, k>> \in (1..Len(groups)) \X (1..(MaxItems + 2)) :
                    k <= Len(groups[g].items) /\ groups[g].items[k].id = id})

\* C23: every stored custom item is displayed in exactly one department
\* group, whatever its department field is.
C23_StoredItemsAreDisplayed ==
  \A k \in 1..Len(customItems) : TimesDisplayed(customItems[k].id) = 1

\* the Save button of the edit form was pressed and something was stored
EditSaved ==
  /\ showAddModal
  /\ editItem # NoItem
  /\ ~showAddModal'
  /\ <<customItems, deletedItems>>' # <<customItems, deletedItems>>

Count(seq, x) == Cardinality({i \in 1..Len(seq) : seq[i] = x})

\* the same entries, each as many times, in any order
SameItems(a, b) == \A x \in SeqToSet(a) \cup SeqToSet(b) : Count(a, x) = Count(b, x)

EditsStoredItem == \E i \in 1..Len(customItems) : customItems[i].id = editItem.id

\* C24: saving an edit keeps the number of displayed items and changes no
\* item other than the edited one; a stored custom item is replaced in place
\* under the same id, a catalog item is hidden and exactly one override is
\* added.
C24_EditChangesOnlyTheItem ==
  [][EditSaved =>
       /\ Len(AllExistingItems') = Len(AllExistingItems)
       /\ \E k \in 1..Len(AllExistingItems), n \in 1..Len(AllExistingItems') :
            /\ AllExistingItems[k] = editItem
            /\ SameItems(RemoveAt(Shown, k), RemoveAt(Shown', n))
       /\ IF EditsStoredItem
          THEN /\ Len(customItems') = Len(customItems)
               /\ \A i \in 1..Len(customItems) :
                    IF customItems[i].id = editItem.id
                    THEN customItems'[i].id = editItem.id
                    ELSE customItems'[i] = customItems[i]
               /\ deletedItems' = deletedItems
          ELSE /\ Len(customItems') = Len(customItems) + 1
               /\ SubSeq(customItems', 1, Len(customItems)) = customItems
               /\ deletedItems' = Append(deletedItems, editItem.sku)]_vars

\* C25: while the logged-in user is not admin, no operation of the items
\* view modifies or removes a stored custom item or hides a catalog item:
\* the deleted-items list never changes and the stored custom items only
\* grow by appending.
C25_NonAdminOnlyAppends ==
  [][user # "admin" =>
       /\ deletedItems' = deletedItems
       /\ Len(customItems') >= Len(customItems)
       /\ SubSeq(customItems', 1, Len(customItems)) = customItems]_vars

\* a user who is not admin has added or imported two items
C25_Witness == user # "admin" /\ user # Null /\ Len(customItems) >= 2

\* the displayed items that carry the star
MarkedItems == {k \in 1..Len(AllExistingItems) : Includes(favorites, AllExistingItems[k].sku)}

\* every favorite SKU is the SKU of a displayed item
FavoritesAreDisplayed ==
  \A i \in 1..Len(favorites) :
    \E k \in 1..Len(AllExistingItems) : AllExistingItems[k].sku = favorites[i]

\* C28: the count on the Favorites button equals the number of displayed
\* items marked as favorites; the favorites list never holds the same SKU
\* twice and never the SKU of an item that is no longer displayed.
C28_FavoritesCount ==
  /\ totalFavorites = Cardinality(MarkedItems)
  /\ \A i, j \in 1..Len(favorites) : i # j => favorites[i] # favorites[j]
  /\ FavoritesAreDisplayed

\* C29: back on the dashboard after any sequence of add, edit, delete and
\* import operations, the count on the Items card equals the number of items
\* the items view displays with an empty search and the favorites filter off.
C29_DashboardCount ==
  Screen = "dashboard" => totalItems = Len(AllExistingItems)

\* ------------------------------------------ properties: GS1 element strings
\* the first position of ch in s at or after i, or Len(s) + 1
RECURSIVE Find(_, _, _)
Find(s, ch, i) == IF i > Len(s) \/ s[i] = ch THEN i ELSE Find(s, ch, i + 1)

\* a string read back as its elements: each "(ai)" with the text up to the
\* next "("; a string that does not start with "(" has none
RECURSIVE ElementsOf(_)
ElementsOf(s) ==
  IF s = <<>> \/ Head(s) # "(" THEN <<>>
  ELSE LET close == Find(s, ")", 1)
           next == Find(s, "(", close)
       IN <<[ai |-> SubSeq(s, 2, close - 1), value |-> SubSeq(s, close + 1, next - 1)]>>
          \o ElementsOf(SubSeq(s, next, Len(s)))

\* a GS1 item went through handleSubmit
SubmittedGs1 == itemData.saved /\ isGs1Type(formData)

BuiltElements == ElementsOf(itemData.gs1String)

Opt(present, ai) == IF present THEN <<ai>> ELSE <<>>

\* the AIs of the fields that are filled in, in the fixed order
ExpectedAIs(fd) ==
  <<(<<"0", "1">>)>>
  \o Opt(fd.productionDate # <<>>, <<"1", "1">>)
  \o Opt(fd.bestBeforeDate # <<>>, <<"1", "5">>)
  \o Opt(fd.sellByDate # <<>>, <<"1", "6">>)
  \o Opt(fd.expirationDate # <<>>, <<"1", "7">>)
  \o Opt(fd.batchLot # <<>>, <<"1", "0">>)
  \o Opt(fd.serialNumber # <<>>, <<"2", "1">>)
  \o Opt(fd.weight.given,
         IF fd.weightUnit = "kg" THEN <<"3", "1", "0", "3">> ELSE <<"3", "2", "0", "3">>)

\* C12: for every subset of the optional fields the built string holds the
\* AIs 01, 11, 15, 16, 17, 10, 21, 3103/3203 in this order, an empty field
\* gives no element at all, and the element of AI 01 is always there and first.
C12_FixedOrder ==
  SubmittedGs1 =>
    /\ [k \in 1..Len(BuiltElements) |-> BuiltElements[k].ai] = ExpectedAIs(formData)
    /\ Len(BuiltElements) >= 1
    /\ BuiltElements[1].ai = <<"0", "1">>
    /\ SubSeq(itemData.gs1String, 1, 4) = <<"(", "0", "1", ")">>

\* some optional fields filled in, others left empty
C12_Witness ==
  /\ SubmittedGs1
  /\ formData.productionDate = <<>>
  /\ formData.expirationDate # <<>>
  /\ formData.batchLot # <<>>
  /\ formData.serialNumber = <<>>
  /\ formData.weight.given
  /\ Len(BuiltElements) = 4

IsParen(ch) == ch \in {"(", ")"}

\* C13: the stored element string gs1String holds the AIs directly followed
\* by their values, without parentheses, and the stored gs1Display is that
\* string with each AI wrapped in parentheses.
C13_ElementStringAndDisplay ==
  SubmittedGs1 =>
    /\ \A i \in 1..Len(itemData.gs1String) : ~IsParen(itemData.gs1String[i])
    /\ SelectSeq(itemData.gs1Display, LAMBDA ch : ~IsParen(ch)) = itemData.gs1String
    /\ ElementsOf(itemData.gs1Display) # <<>>

\* C14: in every built string the value after AI 01 is exactly 14
\* characters long, for an explicit GTIN and for a GTIN derived from the SKU.
C14_GtinIs14Long ==
  SubmittedGs1 => Len(BuiltElements[1].value) = 14

Zeros(n) == [k \in 1..n |-> "0"]

\* C15: without an explicit GTIN the value after AI 01 is the SKU with
\* zeros in front of it up to 14 characters; with an explicit GTIN it is
\* that GTIN, whatever the SKU is.
C15_GtinDefault ==
  SubmittedGs1 =>
    IF formData.gtin = <<>>
    THEN BuiltElements[1].value =
           Zeros(IF Len(formData.sku) < 14 THEN 14 - Len(formData.sku) ELSE 0)
           \o formData.sku
    ELSE BuiltElements[1].value = formData.gtin

\* SKU 123456 without a GTIN gives 00000000123456
C15_Witness ==
  /\ SubmittedGs1
  /\ formData.gtin = <<>>
  /\ formData.sku = <<"1", "2", "3", "4", "5", "6">>
  /\ BuiltElements[1].value =
       <<"0", "0", "0", "0", "0", "0", "0", "0", "1", "2", "3", "4", "5", "6">>

DigitValue(ch) == CHOOSE n \in 0..9 : DigitOf(n) = ch

\* the number a string of digits denotes
RECURSIVE Numeric(_)
Numeric(s) ==
  IF s = <<>> THEN 0 ELSE 10 * Numeric(SubSeq(s, 1, Len(s) - 1)) + DigitValue(s[Len(s)])

\* C16: for every weight the form accepts, the weight element has AI 3103
\* for kg and AI 3203 for lb, and its value is exactly 6 digits that denote
\* the weight multiplied by 1000.
C16_WeightElement ==
  (SubmittedGs1 /\ formData.weight.given) =>
    LET e == BuiltElements[Len(BuiltElements)]
    IN /\ e.ai = IF formData.weightUnit = "kg" THEN <<"3", "1", "0", "3">>
                 ELSE <<"3", "2", "0", "3">>
       /\ Len(e.value) = 6
       /\ \A i \in 1..Len(e.value) : IsDigit(e.value[i])
       /\ Numeric(e.value) = formData.weight.thousandths

DateFields(fd) ==
  {<<(<<"1", "1">>), fd.productionDate>>, <<(<<"1", "5">>), fd.bestBeforeDate>>,
   <<(<<"1", "6">>), fd.sellByDate>>, <<(<<"1", "7">>), fd.expirationDate>>}

WithoutSeparators(date) == SelectSeq(date, LAMBDA ch : ch # "-")

LastChars(s, n) == SubSeq(s, Len(s) - n + 1, Len(s))

\* C17: for each of the date fields 11, 15, 16 and 17 and every date given
\* as YYYY-MM-DD, the value after the AI is the last 6 characters of the date
\* without its separators, the 6 characters YYMMDD.
C17_DateValues ==
  SubmittedGs1 =>
    \A f \in DateFields(formData) :
      f[2] # <<>> =>
        \E k \in 1..Len(BuiltElements) :
          /\ BuiltElements[k].ai = f[1]
          /\ BuiltElements[k].value = LastChars(WithoutSeparators(f[2]), 6)
          /\ Len(BuiltElements[k].value) = 6

\* sell-by 2025-12-15 gives (16)251215
C17_Witness ==
  /\ SubmittedGs1
  /\ formData.sellByDate = <<"2", "0", "2", "5", "-", "1", "2", "-", "1", "5">>
  /\ \E k \in 1..Len(BuiltElements) :
       BuiltElements[k] = [ai |-> <<"1", "6">>, value |-> <<"2", "5", "1", "2", "1", "5">>]

\* ------------------------------------------- properties: linear Barcode
\* the painted bars read as modules of barWidth from the left margin: 1
\* where a bar starts, 0 elsewhere, up to the last bar
ModulesOf(rects) ==
  LET unit(r) == (r.x - 20) \div barWidth
      n == IF rects = <<>> THEN 0
           ELSE 1 + CHOOSE u \in {unit(rects[k]) : k \in 1..Len(rects)} :
                      \A k \in 1..Len(rects) : unit(rects[k]) <= u
  IN [m \in 1..n |-> IF \E k \in 1..Len(rects) : unit(rects[k]) = m - 1 THEN 1 ELSE 0]

\* the symbol of a digit string: start guard, per digit its table pattern
\* and one gap, end guard
RECURSIVE DigitModules(_)
DigitModules(code) ==
  IF code = <<>> THEN <<>> ELSE patterns[Head(code)] \o <<0>> \o DigitModules(Tail(code))

SymbolOf(code) == <<1, 0, 1, 0>> \o DigitModules(code) \o <<1, 0, 1>>

\* C18: for every value with digit string d1..dn the canvas shows exactly
\* the start guard, the pattern of each digit followed by one gap, and the
\* end guard, all bars barWidth wide and of the full height, and the text
\* beneath is the unstripped value.
C18_ExactDrawing ==
  linear.mounted =>
    /\ ModulesOf(linear.canvas.rects) = SymbolOf(Digits(linear.value))
    /\ \A k \in 1..Len(linear.canvas.rects) :
         linear.canvas.rects[k].w = barWidth /\ linear.canvas.rects[k].h = linear.height
    /\ linear.canvas.text = linear.value

\* C19: for every value the canvas is (number of digits) * 11 * 2 + 40 wide
\* and bar height + 20 high.
C19_CanvasSize ==
  linear.mounted =>
    /\ linear.canvas.width = Len(Digits(linear.value)) * 11 * 2 + 40
    /\ linear.canvas.height = linear.height + 20

\* C20: a value without any digit (empty, or only other characters) still
\* gives a symbol, the one of the digit string "0".
C20_NoDigitsRendersZero ==
  (linear.mounted /\ Digits(linear.value) = <<>>) =>
    /\ linear.canvas.rects # <<>>
    /\ ModulesOf(linear.canvas.rects) = SymbolOf(<<"0">>)

\* ------------------------------------------------- properties: components
DataMatrixComps == {c \in Comps : comps[c].mounted /\ comps[c].kind = "datamatrix"}

MountedComps == {c \in Comps : comps[c].mounted}

\* C1: in one render pass of DataMatrixBarcode at most two draw calls are
\* made, the first with the GS1-framed payload; the second (plain) call is
\* made exactly when the first raised; the error state is set iff both
\* raised; when the first succeeds exactly one call was made and the error
\* state is cleared.
C1_TwoTierFallback ==
  \A c \in DataMatrixComps :
    LET calls == comps[c].calls
    IN /\ Len(calls) <= 2
       /\ calls # <<>> =>
            /\ calls[1].parsefnc
            /\ (Len(calls) = 2) <=> ~calls[1].ok
            /\ Len(calls) = 2 => ~calls[2].parsefnc
            /\ comps[c].error <=> (Len(calls) = 2 /\ ~calls[1].ok /\ ~calls[2].ok)
            /\ calls[1].ok => (Len(calls) = 1 /\ ~comps[c].error)

C1_Witness ==
  \E c \in DataMatrixComps :
    /\ Len(comps[c].calls) = 2
    /\ ~comps[c].calls[1].ok
    /\ ~comps[c].calls[2].ok
    /\ comps[c].error

\* C2 as claimed: the retry payload is the failed first payload with every
\* non-digit character removed.
C2_Original ==
  \A c \in DataMatrixComps :
    Len(comps[c].calls) = 2 => comps[c].calls[2].text = Digits(comps[c].calls[1].text)

\* C2 amended: the retry payload is the component's value input with every
\* non-digit character removed; neither the (01) frame of the first payload
\* nor a separate gs1Data string is part of it.
C2_RetryIsDigitsOfValue ==
  \A c \in DataMatrixComps :
    Len(comps[c].calls) = 2 =>
      /\ comps[c].calls[1].text = BarcodeData(comps[c].value, comps[c].gs1Data)
      /\ comps[c].calls[2].text = Digits(comps[c].value)

C2_Witness ==
  \E c \in DataMatrixComps :
    /\ Len(comps[c].calls) = 2
    /\ comps[c].gs1Data # <<>>
    /\ Digits(comps[c].value) # comps[c].value
    /\ comps[c].calls[2].text # Digits(comps[c].calls[1].text)

\* C4: a draw call is made only by a component whose readiness flag is set
\* and while window.bwipjs is defined; a component whose script is still
\* loading or failed to load has made no draw call and shows no symbol.
C4_DrawOnlyWhenReady ==
  \A c \in MountedComps :
    /\ \A i \in 1..Len(comps[c].calls) : comps[c].calls[i].loaded /\ comps[c].calls[i].lib
    /\ comps[c].calls # <<>> => comps[c].loaded /\ bwipjs
    /\ comps[c].script \in {"pending", "failed"} =>
         comps[c].calls = <<>> /\ comps[c].canvas # "drawn"

\* a component draws while its neighbour is still waiting for its own script
C4_Witness ==
  \E c, d \in MountedComps :
    /\ comps[c].calls # <<>>
    /\ comps[d].script = "pending"
    /\ bwipjs

\* C5: at most one load of the library (one script insertion) is ever
\* requested, however many components are mounted.
C5_SingleLoad == scriptCount <= 1

\* C6: what a ready component displays depends only on its current payload
\* and on whether the backend can render it: the symbol if the backend can
\* render it, the placeholder otherwise, whatever was displayed before.
CanRender(s) ==
  IF s.kind = "datamatrix"
  THEN toCanvas(backend, BarcodeData(s.value, s.gs1Data)) \/ toCanvas(backend, Digits(s.value))
  ELSE toCanvas(backend, s.value)

C6_DisplayDependsOnPayloadOnly ==
  \A c \in MountedComps :
    (comps[c].loaded /\ bwipjs) =>
       IF CanRender(comps[c])
       THEN Display(comps[c]) = "canvas" /\ comps[c].canvas = "drawn"
       ELSE Display(comps[c]) = "placeholder"

\* C7: a mounted component shows the loading indicator, a canvas with a
\* drawn symbol, or the placeholder (which prints the raw value); after a
\* failed library load or a render that ended in terminal failure it shows
\* the placeholder, never a blank canvas.
TerminalFailure(s) == s.calls # <<>> /\ ~s.calls[Len(s.calls)].ok

C7_NeverBlank ==
  \A c \in MountedComps :
    /\ Display(comps[c]) \in {"loading", "canvas", "placeholder"}
    /\ Display(comps[c]) = "canvas" => comps[c].canvas = "drawn" /\ comps[c].painted # <<>>
    /\ Display(comps[c]) # "canvas" => comps[c].canvas = "none"
    /\ (comps[c].script = "failed" \/ TerminalFailure(comps[c])) =>
         Display(comps[c]) = "placeholder"

C7_Witness ==
  \E c \in MountedComps : comps[c].script = "failed" /\ Display(comps[c]) = "placeholder"

\* C8: a component that appended the script shows the loading state until
\* that script resolves; onload makes it ready; onerror puts it in the
\* error state, which it never leaves and after which it appends no further
\* script; with every script eventually resolving, every mounted component
\* eventually leaves the loading state.
Loading(c) == comps[c].mounted /\ Display(comps[c]) = "loading"

C8_LoadResolvesOnce ==
  /\ [](\A c \in Comps : comps[c].script = "pending" => Loading(c))
  /\ [][\A c \in Comps :
          /\ (comps[c].script = "pending" /\ comps'[c].mounted) =>
                \/ comps'[c].script = "pending"
                \/ comps'[c].script = "loaded" /\ comps'[c].loaded /\ bwipjs'
                \/ comps'[c].script = "failed" /\ comps'[c].error /\ ~comps'[c].loaded
          /\ (comps[c].script = "failed" /\ comps'[c].mounted) =>
                /\ comps'[c].script = "failed"
                /\ comps'[c].error
                /\ Display(comps'[c]) = "placeholder"]_vars
  /\ \A c \in Comps : Loading(c) ~> ~Loading(c)

C8_Witness ==
  \E c \in MountedComps :
    /\ comps[c].script = "failed"
    /\ comps[c].error
    /\ bwipjs

\* ------------------------------------------ properties: login and navigation
\* the literal credential pairs of the login gate
Credentials == {<<"admin", "elera2025">>, <<"demo", "demo">>, <<"guest", "guest">>}

SuccessfulLogin == last.op = "login" /\ <<last.username, last.password>> \in Credentials

\* C9: the dashboard or a category view is displayed only while a user is
\* logged in; logout leads to the login screen, and the login screen stays
\* displayed through popstate events, reloads and failed attempts until a
\* login attempt with valid credentials.
C9_ViewsOnlyWhileLoggedIn ==
  /\ [](/\ Screen \in {"login", "dashboard"} \cup CategoryScreens
        /\ Screen # "login" => user # Null /\ user \in {c[1] : c \in Credentials}
        /\ last.op = "logout" => Screen = "login")
  /\ [][(Screen = "login" /\ Screen' # "login") => SuccessfulLogin']_vars

\* logged out, the browser's back button restored a category view's state
C9_Witness ==
  /\ Screen = "login"
  /\ last.op = "popstate"
  /\ currentView = "scanbook"
  /\ selectedCategory # Null

\* C10: the attempt succeeds iff the entered pair is one of the literal
\* pairs; then the session user is the entered username and the login
\* screen is gone; otherwise the user stays unset, nothing is stored, and
\* the login screen remains with the error message.
C10_LoginGate ==
  last.op = "login" =>
    IF <<last.username, last.password>> \in Credentials
    THEN /\ user = last.username
         /\ Screen # "login"
    ELSE /\ user = Null
         /\ storedUser = Null
         /\ Screen = "login"
         /\ loginError = InvalidCredentials

\* a known username with another user's password is turned away
C10_Witness ==
  /\ last.op = "login"
  /\ last.username = "admin"
  /\ last.password = "demo"
  /\ loginError = InvalidCredentials
  /\ Screen = "login"

\* C11: whenever a user is logged in, the username stored under elera_user
\* equals the session user, and whenever no user is logged in nothing is
\* stored; a reload while logged in keeps that user and does not show the
\* login screen.
C11_StorageMatchesSession ==
  /\ [](user = storedUser)
  /\ [][(last'.op = "reload" /\ user # Null) => (user' = user /\ Screen' # "login")]_vars

\* a reload in the middle of a session of demo
C11_Witness ==
  /\ last.op = "reload"
  /\ user = "demo"
  /\ storedUser = "demo"
  /\ Screen = "dashboard"

\* C26: immediately after every successful login the dashboard is the
\* displayed view, with no category selected, matching the history state
\* the login handler writes, whatever logout, selections and browser
\* back / forward events preceded the login.
C26_LoginShowsDashboard ==
  SuccessfulLogin =>
    /\ Screen = "dashboard"
    /\ currentView = "dashboard"
    /\ selectedCategory = Null
    /\ history[histIdx] = DashboardState

\* C27: from every reachable state in which a logged-in user sees a
\* scanbook, items, pharmacy or GS1 view, the view's Back button leads to the
\* dashboard with no category selected once the history event is processed:
\* there is an entry to go back to, and the step taken ends on the dashboard.
C27_BackLeadsToDashboard ==
  /\ Screen \in CategoryScreens => histIdx > 1 /\ history[histIdx - 1] = DashboardState
  /\ last.op = "back" =>
       /\ Screen = "dashboard"
       /\ currentView = "dashboard"
       /\ selectedCategory = Null

\* Back was pressed in a category view shown over a dashboard history
\* entry (a login that followed a logout and the browser's forward button)
C27_Witness ==
  /\ last.op = "back"
  /\ Screen = "dashboard"
  /\ histIdx < Len(history)
  /\ history[histIdx + 1] = DashboardState

====
